---- MODULE Spec2Model ----
(***************************************************************************)
(* The shopping-list consolidation engine of backend/services/             *)
(* shopping_list.py: generate_shopping_list and the helpers it calls.      *)
(*                                                                         *)
(* Three specifications: Spec is one invocation of the engine, Helpers is  *)
(* one call of a helper, of parse_ingredient or of the POST /generate      *)
(* handler of backend/routes/shopping_list_routes.py, and Concurrent is    *)
(* several invocations of the engine interleaved.                          *)
(*                                                                         *)
(* Representation.                                                         *)
(*   - Python str values are TLA+ strings; the string operators below are  *)
(*     the str methods and regular expressions the code uses.              *)
(*   - Python numbers are decimal fixed-point integers with four decimal   *)
(*     places (1.0 is 10000), so 236.59 * 0.53 is exact.  Table factors    *)
(*     and densities are held in hundredths (236.59 is 23659).  A float    *)
(*     division is truncated to four decimals.  NaN is the one float       *)
(*     that is not a number; it is kept as a separate value.               *)
(*   - A Python value that may be a str, None or absent is a record        *)
(*     [t, s, n] with t in {"str", "num", "int", "none", "missing"}.       *)
(***************************************************************************)
EXTENDS Integers, Sequences, FiniteSets, TLC

(***************************************************************************)
(* Characters and str methods                                              *)
(***************************************************************************)
UpperChars == "ABCDEFGHIJKLMNOPQRSTUVWXYZ"
LowerChars == "abcdefghijklmnopqrstuvwxyz"
DigitChars == "0123456789"
\* the characters of the model's strings in code-point order
CodePoints == " %&(),-./0123456789ABCDEFGHIJKLMNOPQRSTUVWXYZ_abcdefghijklmnopqrstuvwxyz"

Ch(s, i) == SubSeq(s, i, i)
From(s, i) == SubSeq(s, i, Len(s))
IndexIn(str, c) ==
    IF \E i \in 1..Len(str) : Ch(str, i) = c
    THEN CHOOSE i \in 1..Len(str) : Ch(str, i) = c
    ELSE 0

CharsOf(str) == {Ch(str, i) : i \in 1..Len(str)}
UpperSet == CharsOf(UpperChars)
LowerSet == CharsOf(LowerChars)
DigitSet == CharsOf(DigitChars)
IsUpper(c) == c \in UpperSet
IsLower(c) == c \in LowerSet
IsDigit(c) == c \in DigitSet
IsSpace(c) == c \in {" ", "\t", "\n"}
IsWord(c) == IsUpper(c) \/ IsLower(c) \/ IsDigit(c) \/ c = "_"

ToLower == [c \in UpperSet |-> Ch(LowerChars, IndexIn(UpperChars, c))]
ToUpper == [c \in LowerSet |-> Ch(UpperChars, IndexIn(LowerChars, c))]
CodePoint == [c \in CharsOf(CodePoints) |-> IndexIn(CodePoints, c)]
LowerCh(c) == IF IsUpper(c) THEN ToLower[c] ELSE c
UpperCh(c) == IF IsLower(c) THEN ToUpper[c] ELSE c

RECURSIVE Lower(_)
Lower(s) == IF s = "" THEN "" ELSE LowerCh(Ch(s, 1)) \o Lower(From(s, 2))

StartsWith(s, p) == Len(p) <= Len(s) /\ SubSeq(s, 1, Len(p)) = p
EndsWith(s, p) == Len(p) <= Len(s) /\ SubSeq(s, Len(s) - Len(p) + 1, Len(s)) = p

\* k in s
Contains(s, k) == \E i \in 1..(Len(s) - Len(k) + 1) : SubSeq(s, i, i + Len(k) - 1) = k
Find(s, k) == CHOOSE i \in 1..(Len(s) - Len(k) + 1) :
                 /\ SubSeq(s, i, i + Len(k) - 1) = k
                 /\ \A j \in 1..(i - 1) : SubSeq(s, j, j + Len(k) - 1) # k

\* s.replace(k, "", 1) and s.replace(k, ""), for k # ""
RemoveFirst(s, k) ==
    IF Contains(s, k)
    THEN SubSeq(s, 1, Find(s, k) - 1) \o From(s, Find(s, k) + Len(k))
    ELSE s
RECURSIVE RemoveAll(_, _)
RemoveAll(s, k) ==
    IF Contains(s, k)
    THEN SubSeq(s, 1, Find(s, k) - 1) \o RemoveAll(From(s, Find(s, k) + Len(k)), k)
    ELSE s

RECURSIVE LStrip(_)
LStrip(s) == IF s # "" /\ IsSpace(Ch(s, 1)) THEN LStrip(From(s, 2)) ELSE s
RECURSIVE RStrip(_)
RStrip(s) == IF s # "" /\ IsSpace(Ch(s, Len(s))) THEN RStrip(SubSeq(s, 1, Len(s) - 1)) ELSE s
Strip(s) == LStrip(RStrip(s))

\* s.split(): the maximal runs of non-whitespace characters
RECURSIVE WordEnd(_, _)
WordEnd(s, i) == IF i <= Len(s) /\ ~IsSpace(Ch(s, i)) THEN WordEnd(s, i + 1) ELSE i
RECURSIVE Split(_)
Split(s) ==
    LET t == LStrip(s)
        e == WordEnd(t, 1)
    IN IF t = "" THEN <<>> ELSE <<SubSeq(t, 1, e - 1)>> \o Split(From(t, e))

\* word.capitalize()
Capitalize(w) == IF w = "" THEN "" ELSE UpperCh(Ch(w, 1)) \o Lower(From(w, 2))

\* a < b on str: by code point, a proper prefix first
RECURSIVE StrLess(_, _)
StrLess(a, b) ==
    IF b = "" THEN FALSE
    ELSE IF a = "" THEN TRUE
    ELSE IF Ch(a, 1) = Ch(b, 1) THEN StrLess(From(a, 2), From(b, 2))
    ELSE CodePoint[Ch(a, 1)] < CodePoint[Ch(b, 1)]

(***************************************************************************)
(* Python values                                                           *)
(***************************************************************************)
Str(s) == [t |-> "str", s |-> s, n |-> 0]
Num(n) == [t |-> "num", s |-> "", n |-> n]
None == [t |-> "none", s |-> "", n |-> 0]
Missing == [t |-> "missing", s |-> "", n |-> 0]

\* dict.get(key, default)
Get(v, default) == IF v.t = "missing" THEN default ELSE v
\* bool(v)
Truthy(v) ==
    CASE v.t = "str" -> v.s # ""
      [] v.t \in {"num", "int"} -> v.n # 0
      [] OTHER -> FALSE

(***************************************************************************)
(* Numbers                                                                 *)
(***************************************************************************)
One == 100 * 100
NaN == 0 - 1
\* an int, as json gives for 2; Num is a float
PyInt(n) == [t |-> "int", s |-> "", n |-> n * One]
IsNaN(q) == q = NaN

FAdd(a, b) == IF IsNaN(a) \/ IsNaN(b) THEN NaN ELSE a + b
\* q * c and q / c for a table value c held in hundredths
FMul(q, c) == IF IsNaN(q) THEN NaN ELSE (q \div 100) * c + ((q % 100) * c) \div 100
FDiv(q, c) == IF IsNaN(q) THEN NaN ELSE (q \div c) * 100 + ((q % c) * 100) \div c
\* comparisons with NaN are all false
FLt(a, b) == ~IsNaN(a) /\ ~IsNaN(b) /\ a < b
FLe(a, b) == ~IsNaN(a) /\ ~IsNaN(b) /\ a <= b
FGt(a, b) == FLt(b, a)

(***************************************************************************)
(* Tables (dicts keep insertion order: a sequence of <<key, value>>)       *)
(***************************************************************************)
InSeq(x, seq) == \E i \in DOMAIN seq : seq[i] = x
HasKey(tbl, k) == \E i \in DOMAIN tbl : tbl[i][1] = k
ValueOf(tbl, k) == tbl[CHOOSE i \in DOMAIN tbl : tbl[i][1] = k][2]
\* the index of the first key that occurs in name, 0 when there is none
FirstKeyIn(tbl, name) ==
    IF \E i \in DOMAIN tbl : Contains(name, tbl[i][1])
    THEN CHOOSE i \in DOMAIN tbl :
               /\ Contains(name, tbl[i][1])
               /\ \A j \in 1..(i - 1) : ~Contains(name, tbl[j][1])
    ELSE 0

VOLUME_TO_ML == <<
    <<"teaspoon", 493>>, <<"tsp", 493>>, <<"tablespoon", 1479>>, <<"tbsp", 1479>>,
    <<"fluid ounce", 2957>>, <<"fl oz", 2957>>, <<"cup", 23659>>, <<"cups", 23659>>,
    <<"pint", 47318>>, <<"pt", 47318>>, <<"quart", 94635>>, <<"qt", 94635>>,
    <<"gallon", 378541>>, <<"gal", 378541>>, <<"ml", 100>>, <<"milliliter", 100>>,
    <<"milliliters", 100>>, <<"l", 100000>>, <<"liter", 100000>>, <<"liters", 100000>> >>

WEIGHT_TO_GRAMS == <<
    <<"gram", 100>>, <<"g", 100>>, <<"grams", 100>>, <<"kilogram", 100000>>,
    <<"kg", 100000>>, <<"kilograms", 100000>>, <<"ounce", 2835>>, <<"oz", 2835>>,
    <<"ounces", 2835>>, <<"pound", 45359>>, <<"lb", 45359>>, <<"pounds", 45359>> >>

INGREDIENT_DENSITY == <<
    <<"water", 100>>, <<"milk", 103>>, <<"olive oil", 92>>, <<"vegetable oil", 92>>,
    <<"oil", 92>>, <<"flour", 53>>, <<"all-purpose flour", 53>>, <<"sugar", 85>>,
    <<"granulated sugar", 85>>, <<"brown sugar", 72>>, <<"salt", 122>>, <<"butter", 91>>,
    <<"honey", 142>>, <<"maple syrup", 132>>, <<"rice", 75>>, <<"oats", 42>>,
    <<"yogurt", 103>> >>

PREFERRED_UNITS == <<
    <<"flour", "cups">>, <<"sugar", "cups">>, <<"oil", "tablespoons">>,
    <<"butter", "tablespoons">>, <<"salt", "teaspoons">>, <<"milk", "cups">>,
    <<"water", "cups">>, <<"chocolate chips", "cups">>, <<"oats", "cups">>,
    <<"rice", "cups">> >>

COUNT_UNITS == <<
    "", "whole", "piece", "pieces", "count", "can", "cans", "slice", "slices",
    "stalk", "stalks", "clove", "cloves", "bunch", "bunches", "sprig", "sprigs",
    "leaf", "leaves", "ear", "ears", "head", "heads", "loaf", "loaves" >>

(***************************************************************************)
(* normalize_ingredient_name, is_liquid                                    *)
(***************************************************************************)
NormalizePrefixes == <<"fresh ", "frozen ", "dried ", "ground ", "chopped ", "sliced ",
                       "diced ", "minced ", "grated ", "shredded ", "whole ">>
NormalizeSuffixes == <<", sliced", ", chopped", ", diced", ", minced", ", grated",
                       ", for garnish", ", to taste", ", optional">>

\* one pass over the prefixes, in order
RECURSIVE StripPrefixes(_, _)
StripPrefixes(name, i) ==
    IF i > Len(NormalizePrefixes) THEN name
    ELSE IF StartsWith(name, NormalizePrefixes[i])
         THEN StripPrefixes(RemoveFirst(name, NormalizePrefixes[i]), i + 1)
         ELSE StripPrefixes(name, i + 1)
RECURSIVE StripSuffixes(_, _)
StripSuffixes(name, i) ==
    IF i > Len(NormalizeSuffixes) THEN name
    ELSE IF Contains(name, NormalizeSuffixes[i])
         THEN StripSuffixes(RemoveAll(name, NormalizeSuffixes[i]), i + 1)
         ELSE StripSuffixes(name, i + 1)

normalize_ingredient_name(name) ==
    Strip(StripSuffixes(StripPrefixes(Strip(Lower(name)), 1), 1))

liquid_words == <<"water", "milk", "juice", "oil", "vinegar", "wine", "beer", "stock",
                  "broth", "cream", "sauce", "syrup", "honey", "liquor", "vodka", "whiskey">>
is_liquid(name) == \E i \in DOMAIN liquid_words : Contains(name, liquid_words[i])

\* the density loop of lines 228-232: the first key found in the name; 0 is None
DensityOf(normalized_name) ==
    LET i == FirstKeyIn(INGREDIENT_DENSITY, normalized_name)
    IN IF i = 0 THEN 0 ELSE INGREDIENT_DENSITY[i][2]

(***************************************************************************)
(* Regular expressions.  A pattern is a sequence of tokens: a character    *)
(* class repeated (once or more, or any number of times), a literal, or an *)
(* optional literal.  In every                                             *)
(* pattern of the code a repeated class is followed by a token that        *)
(* cannot start with a character of the class, so the greedy match is the  *)
(* only match.  Patterns compiled with re.IGNORECASE are lowercase and are *)
(* matched against the lowercased subject.                                 *)
(***************************************************************************)
Plus(cls) == [k |-> "plus", v |-> cls]
Star(cls) == [k |-> "star", v |-> cls]
Lit(str) == [k |-> "lit", v |-> str]
Opt(str) == [k |-> "opt", v |-> str]

\* classes: d is a digit, s is whitespace, n is a digit or '/', w is a word character
InClass(c, cls) ==
    CASE cls = "d" -> IsDigit(c)
      [] cls = "s" -> IsSpace(c)
      [] cls = "n" -> IsDigit(c) \/ c = "/"
      [] cls = "w" -> IsWord(c)
      [] cls = "q" -> IsDigit(c) \/ c \in {"/", "."} \/ IsSpace(c)
      [] cls = "a" -> IsUpper(c) \/ IsLower(c)

RECURSIVE Span(_, _, _)
Span(s, i, cls) ==
    IF i <= Len(s) /\ InClass(Ch(s, i), cls) THEN 1 + Span(s, i + 1, cls) ELSE 0
RECURSIVE BackSpan(_, _, _)
BackSpan(s, i, cls) ==
    IF i >= 1 /\ InClass(Ch(s, i), cls) THEN 1 + BackSpan(s, i - 1, cls) ELSE 0

LitAt(s, i, str) == i + Len(str) - 1 <= Len(s) /\ SubSeq(s, i, i + Len(str) - 1) = str

\* the index after the match of toks[j..] at s[i..], 0 when there is no match
RECURSIVE MatchAt(_, _, _, _)
MatchAt(s, i, toks, j) ==
    IF j > Len(toks) THEN i
    ELSE LET t == toks[j] IN
      CASE t.k = "plus" ->
             IF Span(s, i, t.v) = 0 THEN 0 ELSE MatchAt(s, i + Span(s, i, t.v), toks, j + 1)
        [] t.k = "star" -> MatchAt(s, i + Span(s, i, t.v), toks, j + 1)
        [] t.k = "lit" ->
             IF LitAt(s, i, t.v) THEN MatchAt(s, i + Len(t.v), toks, j + 1) ELSE 0
        [] t.k = "opt" ->
             IF LitAt(s, i, t.v) /\ MatchAt(s, i + Len(t.v), toks, j + 1) # 0
             THEN MatchAt(s, i + Len(t.v), toks, j + 1)
             ELSE MatchAt(s, i, toks, j + 1)

\* \b between s[p] and s[p+1]
Boundary(s, p) ==
    (p >= 1 /\ p <= Len(s) /\ IsWord(Ch(s, p))) # (p + 1 <= Len(s) /\ IsWord(Ch(s, p + 1)))

\* re.sub('^' + toks, '', name, flags=re.IGNORECASE)
SubPrefix(name, toks) ==
    LET e == MatchAt(Lower(name), 1, toks, 1)
    IN IF e = 0 THEN name ELSE From(name, e)

\* re.sub(r',?\s+' + lit + '$', '', name, flags=re.IGNORECASE); with word, lit is
\* followed by \w+.  The search returns the leftmost match: all the whitespace
\* before lit, and the comma before it.
SubSuffix(name, lit, word) ==
    LET l == Lower(name)
        w == IF word THEN BackSpan(l, Len(l), "w") ELSE 0
        e == Len(l) - w
        b == e - Len(lit) + 1
        sp == BackSpan(l, b - 1, "s")
        c == b - sp - 1
    IN IF (word => w >= 1) /\ b >= 1 /\ SubSeq(l, b, e) = lit /\ sp >= 1
       THEN IF c >= 1 /\ Ch(l, c) = "," THEN SubSeq(name, 1, c - 1) ELSE SubSeq(name, 1, c)
       ELSE name

\* re.sub(r'\b\d+\s*' + sep + r'\s*\d+\b', '', s), scanning from index i
RangeAt(s, i, sep) ==
    LET e == MatchAt(s, i, <<Plus("d"), Star("s"), Lit(sep), Star("s"), Plus("d")>>, 1)
    IN IF Boundary(s, i - 1) /\ e # 0 /\ Boundary(s, e - 1) THEN e ELSE 0
RECURSIVE RemoveRanges(_, _, _)
RemoveRanges(s, i, sep) ==
    IF i > Len(s) THEN ""
    ELSE IF RangeAt(s, i, sep) # 0 THEN RemoveRanges(s, RangeAt(s, i, sep), sep)
    ELSE Ch(s, i) \o RemoveRanges(s, i + 1, sep)

(***************************************************************************)
(* clean_ingredient_name                                                   *)
(***************************************************************************)
unit_words == COUNT_UNITS \o <<"teaspoon", "tablespoon", "cup", "tsp", "tbsp",
                               "ounce", "gram", "milliliter", "liter", "pound", "kilogram">>

\* the first loop: the first unit word (or its plural) the lowercased name starts with
RECURSIVE StripUnitWord(_, _, _)
StripUnitWord(name, name_lower, i) ==
    IF i > Len(unit_words) THEN name
    ELSE LET unit == unit_words[i] IN
         IF StartsWith(name_lower, unit \o " ") THEN From(name, Len(unit) + 2)
         ELSE IF unit # "tsp" /\ unit # "tbsp" /\ StartsWith(name_lower, unit \o "s ")
              THEN From(name, Len(unit) + 3)
         ELSE StripUnitWord(name, name_lower, i + 1)

\* the second loop: '^' + unit + r'\b\s*', searched in name_lower, removed from name
UnitWordAt(l, unit) == StartsWith(l, unit) /\ Boundary(l, Len(unit))
RECURSIVE StripCountUnits(_, _, _)
StripCountUnits(name, name_lower, i) ==
    IF i > Len(COUNT_UNITS) THEN name
    ELSE LET unit == COUNT_UNITS[i]
             l == Lower(name)
         IN IF UnitWordAt(name_lower, unit) /\ UnitWordAt(l, unit)
               /\ Len(unit) + Span(l, Len(unit) + 1, "s") > 0
            THEN StripCountUnits(From(name, Len(unit) + Span(l, Len(unit) + 1, "s") + 1),
                                 name_lower, i + 1)
            ELSE StripCountUnits(name, name_lower, i + 1)

\* ^[\d/]+ <word>s?\s+ and ^[\d/]+ <word>\s+, with \s+of\s+ when of
Qty(word, plural, of) ==
    <<Plus("n"), Lit(" " \o word)>> \o (IF plural THEN <<Opt("s")>> ELSE <<>>)
    \o <<Plus("s")>> \o (IF of THEN <<Lit("of"), Plus("s")>> ELSE <<>>)
Word(str) == <<Lit(str), Plus("s")>>

prefixes_to_remove == <<
    <<Plus("d"), Plus("s")>>,
    <<Plus("d"), Star("s"), Lit("-"), Star("s"), Plus("d"), Plus("s")>>,
    <<Plus("d"), Star("s"), Lit("to"), Star("s"), Plus("d"), Plus("s")>>,
    Qty("cup", TRUE, FALSE), Qty("tablespoon", TRUE, FALSE), Qty("teaspoon", TRUE, FALSE),
    Qty("tsp", TRUE, FALSE), Qty("tbsp", TRUE, FALSE), Qty("ounce", TRUE, FALSE),
    Qty("oz", FALSE, FALSE), Qty("pound", TRUE, FALSE), Qty("lb", TRUE, FALSE),
    Qty("kilogram", TRUE, FALSE), Qty("gram", TRUE, FALSE), Qty("g", FALSE, FALSE),
    Qty("milliliter", TRUE, FALSE), Qty("ml", FALSE, FALSE), Qty("liter", TRUE, FALSE),
    Qty("l", FALSE, FALSE),
    Qty("can", TRUE, TRUE), Qty("can", TRUE, FALSE),
    Qty("slice", TRUE, TRUE), Qty("slice", TRUE, FALSE),
    Qty("stalk", TRUE, TRUE), Qty("stalk", TRUE, FALSE),
    Qty("clove", TRUE, TRUE), Qty("clove", TRUE, FALSE),
    <<Plus("n"), Lit(" bunch"), Opt("e"), Opt("s"), Plus("s"), Lit("of"), Plus("s")>>,
    <<Plus("n"), Lit(" bunch"), Opt("e"), Opt("s"), Plus("s")>>,
    Qty("sprig", TRUE, TRUE), Qty("sprig", TRUE, FALSE),
    Qty("leave", TRUE, TRUE), Qty("leave", TRUE, FALSE),
    Qty("head", TRUE, TRUE), Qty("head", TRUE, FALSE),
    <<Plus("n"), Star("s"), Lit("-"), Star("s"), Plus("n"), Plus("s")>>,
    <<Plus("n"), Star("s"), Lit("to"), Star("s"), Plus("n"), Plus("s")>>,
    Word("for the"), Word("for"), Word("the"), Word("of"), Word("approximately"),
    Word("about"), Word("around"), Word("or so"), Word("to taste") >>

\* <<literal, followed by \w+>>
suffixes_to_remove == <<
    <<"divided", FALSE>>, <<"plus more for ", TRUE>>, <<"plus extra for ", TRUE>>,
    <<"plus more as needed", FALSE>>, <<"plus extra", FALSE>>, <<"optional", FALSE>>,
    <<"to serve", FALSE>>, <<"for serving", FALSE>>, <<"for garnish", FALSE>>,
    <<"for the top", FALSE>>, <<"for decoration", FALSE>>, <<"to taste", FALSE>>,
    <<"or to taste", FALSE>>, <<"(divided)", FALSE>>, <<"(optional)", FALSE>>,
    <<"(to serve)", FALSE>>, <<"(for serving)", FALSE>>, <<"(for garnish)", FALSE>> >>

RECURSIVE ApplyPrefixes(_, _)
ApplyPrefixes(name, i) ==
    IF i > Len(prefixes_to_remove) THEN name
    ELSE IF MatchAt(Lower(name), 1, prefixes_to_remove[i], 1) = 0
         THEN ApplyPrefixes(name, i + 1)
         ELSE ApplyPrefixes(SubPrefix(name, prefixes_to_remove[i]), i + 1)
RECURSIVE ApplySuffixes(_, _)
ApplySuffixes(name, i) ==
    IF i > Len(suffixes_to_remove) THEN name
    ELSE IF SubSuffix(name, suffixes_to_remove[i][1], suffixes_to_remove[i][2]) = name
         THEN ApplySuffixes(name, i + 1)
         ELSE ApplySuffixes(SubSuffix(name, suffixes_to_remove[i][1], suffixes_to_remove[i][2]),
                            i + 1)

LowercaseWords == {"and", "or", "of", "the", "with"}
TitleWord(word) == IF Lower(word) \in LowercaseWords THEN Lower(word) ELSE Capitalize(word)
RECURSIVE JoinTitle(_, _)
JoinTitle(words, i) ==
    IF i > Len(words) THEN ""
    ELSE (IF i > 1 THEN " " ELSE "") \o TitleWord(words[i]) \o JoinTitle(words, i + 1)

\* lines 423-427
Titled(name) == Strip(IF Split(name) # <<>> THEN JoinTitle(Split(name), 1) ELSE name)

\* the steps of the function, the first innermost: the unit_words loop, the
\* COUNT_UNITS loop, the prefixes, the suffixes, the two ranges, the capitals
clean_ingredient_name(name) ==
    Titled(RemoveRanges(RemoveRanges(
        ApplySuffixes(
            ApplyPrefixes(
                StripCountUnits(StripUnitWord(name, Lower(name), 1), Lower(name), 1),
                1),
            1),
        1, "-"), 1, "to"))

(***************************************************************************)
(* convert_to_standard_unit                                                *)
(***************************************************************************)
Returned(q, u) == [exc |-> "", q |-> q, u |-> u]
Raised(e) == [exc |-> e, q |-> 0, u |-> ""]

count_words == <<"can", "stalk", "slice", "clove", "bunch", "sprig", "leaf", "head", "loaf">>

\* lines 216-244, for the unit u after lower(), strip() and the tbsp/tsp renaming
StandardizeKnownUnit(quantity, u, ingredient_name) ==
    LET liquid == is_liquid(ingredient_name)
        density == DensityOf(normalize_ingredient_name(ingredient_name))
    IN IF liquid /\ HasKey(VOLUME_TO_ML, u)
       THEN Returned(FMul(quantity, ValueOf(VOLUME_TO_ML, u)), "ml")
       ELSE IF ~liquid /\ HasKey(WEIGHT_TO_GRAMS, u)
       THEN Returned(FMul(quantity, ValueOf(WEIGHT_TO_GRAMS, u)), "g")
       ELSE IF ~liquid /\ HasKey(VOLUME_TO_ML, u)
       THEN IF density # 0
            THEN Returned(FMul(FMul(quantity, ValueOf(VOLUME_TO_ML, u)), density), "g")
            ELSE Returned(FMul(quantity, ValueOf(VOLUME_TO_ML, u)), "ml")
       ELSE Returned(quantity, u)

\* unit is a Python value: a str or None
convert_to_standard_unit(quantity, unit, ingredient_name) ==
    IF ~Truthy(unit)
       /\ \E i \in DOMAIN count_words :
             Contains(Lower(clean_ingredient_name(ingredient_name)), count_words[i])
    THEN Returned(quantity, "count")
    ELSE IF unit.t # "str" THEN Raised("AttributeError")
    ELSE LET u == Strip(Lower(unit.s)) IN
         IF InSeq(u, COUNT_UNITS) THEN Returned(quantity, "count")
         ELSE StandardizeKnownUnit(quantity,
                                   IF u \in {"tablespoon", "tablespoons"} THEN "tbsp"
                                   ELSE IF u \in {"teaspoon", "teaspoons"} THEN "tsp"
                                   ELSE u,
                                   ingredient_name)

(***************************************************************************)
(* float(text), for the texts of the input sets: a decimal number or nan   *)
(***************************************************************************)
RECURSIVE DigitsValue(_)
DigitsValue(s) ==
    IF s = "" THEN 0
    ELSE DigitsValue(SubSeq(s, 1, Len(s) - 1)) * 10 + IndexIn(DigitChars, Ch(s, Len(s))) - 1

Unsigned(s) == IF s # "" /\ Ch(s, 1) \in {"+", "-"} THEN From(s, 2) ELSE s
IntPart(s) == SubSeq(s, 1, Span(s, 1, "d"))
FracPart(s) ==
    IF LitAt(s, Span(s, 1, "d") + 1, ".") THEN From(s, Span(s, 1, "d") + 2) ELSE ""
IsDecimal(s) ==
    /\ Len(IntPart(s)) + Len(FracPart(s)) >= 1
    /\ Span(FracPart(s), 1, "d") = Len(FracPart(s))
    /\ s \in {IntPart(s), IntPart(s) \o "." \o FracPart(s)}

\* float(text) raises ValueError
FloatFails(text) ==
    LET u == Unsigned(Strip(text)) IN ~(Lower(u) = "nan" \/ IsDecimal(u))
FloatOf(text) ==
    LET t == Strip(text)
        u == Unsigned(t)
        v == DigitsValue(IntPart(u)) * One + DigitsValue(SubSeq(FracPart(u) \o "0000", 1, 4))
    IN IF Lower(u) = "nan" THEN NaN
       ELSE IF Ch(t, 1) = "-" THEN 0 - v ELSE v

(***************************************************************************)
(* routes/shopping_list_routes.py: parse_ingredient, on a str without a    *)
(* newline. amount is a number of the model; exc is the exception that     *)
(* escapes, "" when none does.                                             *)
(***************************************************************************)
\* line 17 on the stripped s: group 1 is the longest run of [\d\/\.\s] that
\* leaves a character to group 3, and is None when that run is empty
QuantityLength(s) == IF Span(s, 1, "q") < Len(s) THEN Span(s, 1, "q") ELSE Len(s) - 1
\* group 2 at s[i..]: letters and the whitespace after them, None without either
UnitLength(s, i) ==
    IF Span(s, i, "a") > 0 /\ Span(s, i + Span(s, i, "a"), "s") > 0
    THEN Span(s, i, "a") + Span(s, i + Span(s, i, "a"), "s")
    ELSE 0

\* lines 32-34 for quantity_str with one '/', num and denom being its two sides
Fraction(num, denom) ==
    IF FloatFails(num) \/ FloatFails(denom) THEN [exc |-> "", amount |-> One]
    ELSE IF FloatOf(denom) = 0 THEN [exc |-> "ZeroDivisionError", amount |-> 0]
    ELSE [exc |-> "", amount |-> (FloatOf(num) * One) \div FloatOf(denom)]
\* lines 29-39
QuantityOfText(quantity_str) ==
    IF quantity_str = "" THEN [exc |-> "", amount |-> One]
    ELSE IF Contains(quantity_str, "/")
    THEN IF Contains(From(quantity_str, Find(quantity_str, "/") + 1), "/")
         THEN [exc |-> "", amount |-> One]
         ELSE Fraction(SubSeq(quantity_str, 1, Find(quantity_str, "/") - 1),
                       From(quantity_str, Find(quantity_str, "/") + 1))
    ELSE IF FloatFails(quantity_str) THEN [exc |-> "", amount |-> One]
    ELSE [exc |-> "", amount |-> FloatOf(quantity_str)]

\* lines 23-50, group 1 being s[1..q] and group 2 the u characters after it
Groups(s, q, u, quantity) ==
    IF quantity.exc # "" THEN [exc |-> quantity.exc, amount |-> 0, unit |-> "", name |-> ""]
    ELSE [exc |-> "", amount |-> quantity.amount,
          unit |-> Strip(SubSeq(s, q + 1, q + u)), name |-> Strip(From(s, q + u + 1))]
Matched(s, q) == Groups(s, q, UnitLength(s, q + 1), QuantityOfText(SubSeq(s, 1, q)))
parse_ingredient(ingredient_str) ==
    IF Strip(ingredient_str) = ""
    THEN [exc |-> "", amount |-> One, unit |-> "", name |-> ""]
    ELSE Matched(Strip(ingredient_str), QuantityLength(Strip(ingredient_str)))

(***************************************************************************)
(* generate_shopping_list: one iteration of the ingredient loop            *)
(***************************************************************************)
\* an entry of extendedIngredients: a dict with name, amount and unit, or a str
Dict(name, amount, unit) == [form |-> "dict", name |-> name, amount |-> amount, unit |-> unit]
Text(str) == [form |-> "str", name |-> Str(str), amount |-> Missing, unit |-> Missing]

\* lines 475-481: quantity, a number or None
QuantityOf(amount) ==
    LET quantity == Get(amount, Num(0)) IN
    IF quantity.t = "str"
    THEN IF FloatFails(quantity.s) THEN Num(0) ELSE Num(FloatOf(quantity.s))
    ELSE quantity

\* lines 461-493: what the iteration does with the entry before it touches the dict
Continue == [kind |-> "continue", exc |-> ""]
Raise(e) == [kind |-> "raise", exc |-> e]
\* line 493, std being what convert_to_standard_unit returned or raised
Standardized(name, clean_name, normalized_name, unit, std) ==
    IF std.exc # "" THEN Raise(std.exc)
    ELSE [kind |-> "add", exc |-> "", normalized_name |-> normalized_name,
          clean_name |-> IF clean_name = "" THEN name ELSE clean_name,
          std_quantity |-> std.q, std_unit |-> std.u, unit |-> unit]
\* lines 462-493 for a dict entry: name, quantity and unit are what lines 462,
\* 475-481 and 483 read
Read(name, quantity, unit) ==
    IF ~Truthy(name) THEN Continue
    ELSE IF quantity.t # "num" THEN Raise("TypeError")
    ELSE IF FLe(quantity.n, 0) THEN Continue
    ELSE Standardized(name.s, clean_ingredient_name(name.s),
                      normalize_ingredient_name(name.s), unit,
                      convert_to_standard_unit(quantity.n, unit,
                                               normalize_ingredient_name(name.s)))
Contribution(ingredient) ==
    IF ingredient.form = "str" THEN Raise("AttributeError")
    ELSE Read(Get(ingredient.name, Str("")), QuantityOf(ingredient.amount),
              Get(ingredient.unit, Str("")))

\* standardized_ingredients is a dict: its entries in insertion order
IndexOfKey(dict, key) ==
    IF \E i \in DOMAIN dict : dict[i].key = key
    THEN CHOOSE i \in DOMAIN dict : dict[i].key = key
    ELSE 0
HasBucket(dict, key) == IndexOfKey(dict, key) # 0
BucketOf(dict, key) == dict[IndexOfKey(dict, key)]
\* dict[key] = entry
SetItem(dict, key, entry) ==
    IF HasBucket(dict, key)
    THEN [dict EXCEPT ![IndexOfKey(dict, key)] = entry]
    ELSE Append(dict, entry)

Entry(key, c) ==
    [key |-> key, name |-> c.clean_name, std_quantity |-> c.std_quantity,
     std_unit |-> c.std_unit, original_unit |-> c.unit, is_liquid |-> is_liquid(c.normalized_name)]

AltName(normalized_name, std_unit) == normalized_name \o " (in " \o std_unit \o ")"

\* lines 496-559
Merge(dict, c) ==
    LET key == c.normalized_name
        old == BucketOf(dict, key)
        density == DensityOf(key)
        alt == SetItem(dict, AltName(key, c.std_unit), Entry(AltName(key, c.std_unit), c))
        AddTo(entry, q) == SetItem(dict, key, [entry EXCEPT !.std_quantity = FAdd(@, q)])
    IN IF ~HasBucket(dict, key) THEN SetItem(dict, key, Entry(key, c))
       ELSE IF old.std_unit = "ml" /\ c.std_unit = "g"
       THEN IF density # 0
            THEN AddTo([old EXCEPT !.std_quantity = FMul(@, density), !.std_unit = "g"],
                       c.std_quantity)
            ELSE alt
       ELSE IF old.std_unit = "g" /\ c.std_unit = "ml"
       THEN IF density # 0 THEN AddTo(old, FMul(c.std_quantity, density)) ELSE alt
       ELSE AddTo(old, c.std_quantity)

(***************************************************************************)
(* determine_best_unit: the patterns and the magnitudes                    *)
(***************************************************************************)
\* re.search(r'\b' + word + '(' + suffix + r')?\b', s)
WordPattern(s, word, suffix) ==
    \E i \in 1..Len(s) :
        /\ LitAt(s, i, word)
        /\ Boundary(s, i - 1)
        /\ \/ Boundary(s, i + Len(word) - 1)
           \/ LitAt(s, i + Len(word), suffix) /\ Boundary(s, i + Len(word) + Len(suffix) - 1)
\* re.search(r'\b' + a + '|' + b + r'\b', s): the alternation binds last
EitherPattern(s, a, b) ==
    \/ \E i \in 1..Len(s) : LitAt(s, i, a) /\ Boundary(s, i - 1)
    \/ \E i \in 1..Len(s) : LitAt(s, i, b) /\ Boundary(s, i + Len(b) - 1)

count_patterns(s) ==
    \/ WordPattern(s, "can", "s") \/ WordPattern(s, "stalk", "s")
    \/ WordPattern(s, "slice", "s") \/ WordPattern(s, "clove", "s")
    \/ WordPattern(s, "bunch", "es") \/ WordPattern(s, "sprig", "s")
    \/ EitherPattern(s, "leaf", "leaves") \/ WordPattern(s, "ear", "s")
    \/ WordPattern(s, "head", "s") \/ EitherPattern(s, "loaf", "loaves")
    \/ WordPattern(s, "whole", "") \/ WordPattern(s, "piece", "s")

count_items == <<"egg", "eggs", "banana", "apple", "orange", "potato", "onion", "tomato">>

\* lines 169-187: the unit by kind and magnitude
ByMagnitude(normalized_name, is_liquid_flag, quantity) ==
    IF is_liquid_flag
    THEN IF FLt(quantity, 15 * One) THEN "teaspoon"
         ELSE IF FLt(quantity, 60 * One) THEN "tablespoon"
         ELSE IF FLt(quantity, 1000 * One) THEN "cup"
         ELSE "liter"
    ELSE IF FLt(quantity, 10 * One) THEN "teaspoon"
         ELSE IF FLt(quantity, 30 * One) THEN "tablespoon"
         ELSE IF FLt(quantity, 500 * One)
         THEN IF normalized_name \in {"flour", "sugar", "rice", "oats"} THEN "cup" ELSE "grams"
         ELSE "kg"

(***************************************************************************)
(* determine_category                                                      *)
(***************************************************************************)
CategoryRules == <<
    <<"Produce", <<"lettuce", "spinach", "kale", "arugula", "cabbage", "carrot", "onion",
        "garlic", "potato", "tomato", "pepper", "cucumber", "zucchini", "squash", "pumpkin",
        "broccoli", "cauliflower", "corn", "pea", "bean", "lentil", "fruit", "apple",
        "banana", "orange", "berry", "lemon", "lime", "herb", "cilantro", "parsley",
        "basil", "mint", "thyme", "rosemary", "avocado", "mushroom">> >>,
    <<"Dairy", <<"milk", "cream", "cheese", "yogurt", "butter", "egg", "margarine">> >>,
    <<"Meat", <<"beef", "steak", "chicken", "pork", "ham", "bacon", "sausage", "turkey",
        "meat", "lamb", "veal">> >>,
    <<"Seafood", <<"fish", "salmon", "tuna", "shrimp", "prawn", "crab", "lobster", "clam",
        "mussel", "oyster", "scallop", "seafood">> >>,
    <<"Baking & Spices", <<"flour", "sugar", "baking powder", "baking soda", "yeast", "salt",
        "pepper", "spice", "cinnamon", "vanilla", "cocoa", "chocolate", "extract">> >>,
    <<"Grains & Pasta", <<"rice", "pasta", "noodle", "spaghetti", "macaroni", "bread",
        "cereal", "oat", "quinoa", "barley", "grain">> >>,
    <<"Canned Goods", <<"can", "canned", "jar", "preserved", "soup", "broth", "stock">> >>,
    <<"Frozen", <<"frozen", "ice cream", "popsicle">> >>,
    <<"Condiments & Sauces", <<"sauce", "ketchup", "mustard", "mayo", "mayonnaise", "vinegar",
        "oil", "dressing", "syrup", "honey", "jam", "jelly">> >>,
    <<"Beverages", <<"water", "juice", "soda", "tea", "coffee", "wine", "beer", "alcohol",
        "drink">> >>,
    <<"Snacks", <<"chip", "cracker", "nut", "seed", "snack", "popcorn", "pretzel">> >> >>

RuleMatches(i, name) ==
    \E k \in DOMAIN CategoryRules[i][2] : Contains(name, CategoryRules[i][2][k])

\* the category of the last rule that matches: not what the code does
LastMatch(name) ==
    IF \E i \in DOMAIN CategoryRules : RuleMatches(i, Lower(name))
    THEN CategoryRules[CHOOSE i \in DOMAIN CategoryRules :
                          /\ RuleMatches(i, Lower(name))
                          /\ \A j \in (i + 1)..Len(CategoryRules) : ~RuleMatches(j, Lower(name))][1]
    ELSE "Other"

determine_category(name) ==
    LET l == Lower(name) IN
    IF \E i \in DOMAIN CategoryRules : RuleMatches(i, l)
    THEN CategoryRules[CHOOSE i \in DOMAIN CategoryRules :
                          RuleMatches(i, l) /\ \A j \in 1..(i - 1) : ~RuleMatches(j, l)][1]
    ELSE "Other"

(***************************************************************************)
(* The input sets: the entries of extendedIngredients the model draws from *)
(***************************************************************************)
Names == {"flour", "eggs", "spinach", "milk"}
Units == {"", "cup", "g"}
Amounts == {Num(One), Num(2 * One)}

WellFormed == {Dict(Str(name), amount, Str(unit)) : name \in Names, amount \in Amounts, unit \in Units}
\* a liquid by weight: the unit is passed through
PassedThrough == {Dict(Str("milk"), Num(One), Str("oz"))}
OddAmounts == {Missing, None, Num(0), Num(0 - One), Str("2"), Str("abc"), Str("nan")}
OddAmount == {Dict(Str(name), amount, Str(unit)) :
                 name \in {"spinach", "eggs"}, amount \in OddAmounts, unit \in {"", "cup"}}
OddUnit == {Dict(Str(name), amount, unit) :
               name \in {"spinach", "milk"}, amount \in {Num(One), Num(0)}, unit \in {Missing, None}}
OddName == {Dict(name, Num(One), Str("cup")) : name \in {Missing, None, Str("")}}
FreeText == {Text("2 cups flour")}
Ingredients == WellFormed \cup PassedThrough \cup OddAmount \cup OddUnit \cup OddName \cup FreeText

\* recipes whose extendedIngredients is absent, None or []
EmptyRecipes == {[servings |-> servings, extendedIngredients |-> ingredients] :
                    servings \in {Missing, Num(0), Num(4)},
                    ingredients \in {"missing", "none", "empty"}}

\* the ingredients of the lists that are given in two orders: one gram of
\* basil under two names, and the ingredients that are given in two units
Reordered ==
    {Dict(Str(name), Num(One), Str("g")) : name \in {"fresh basil", "basil", "fresh spinach"}}
    \cup {Dict(Str(name), Num(One), Str(unit)) : name \in {"flour", "eggs"}, unit \in {"", "cup", "g"}}

\* Contribution on the input sets, computed once
ContributionOf == [ingredient \in Ingredients \cup Reordered |-> Contribution(ingredient)]

\* What the display loop reads off a name alone, computed once for the strings
\* that reach the dict from the input sets and when it is met for any other.
NameFacts(s) ==
    LET normalized_name == normalize_ingredient_name(s) IN
    [normalized_name |-> normalized_name,
     count_pattern |-> count_patterns(Lower(normalized_name)),
     count_item |-> \E i \in DOMAIN count_items : Contains(normalized_name, count_items[i]),
     preferred |-> FirstKeyIn(PREFERRED_UNITS, normalized_name),
     density |-> DensityOf(normalized_name),
     category |-> determine_category(s)]
\* the strings an entry brings to the dict: its names and the keys of its buckets
StringsOf(c) ==
    IF c.kind = "add"
    THEN {c.clean_name, c.normalized_name,
          AltName(c.normalized_name, "ml"), AltName(c.normalized_name, "g")}
    ELSE {}
name_facts == [s \in UNION {StringsOf(ContributionOf[i]) : i \in Ingredients} |-> NameFacts(s)]
Lookup(facts, s) == IF s \in DOMAIN facts THEN facts[s] ELSE NameFacts(s)
FactsOf(s) == Lookup(name_facts, s)

(***************************************************************************)
(* determine_best_unit                                                     *)
(***************************************************************************)
\* original_unit is a Python value: a str or None
BestUnit(facts, is_liquid_flag, quantity, original_unit) ==
    IF Truthy(original_unit) /\ InSeq(Lower(original_unit.s), COUNT_UNITS) THEN "count"
    ELSE IF facts.count_pattern THEN "count"
    ELSE IF facts.count_item THEN "count"
    ELSE IF facts.preferred # 0 THEN PREFERRED_UNITS[facts.preferred][2]
    ELSE ByMagnitude(facts.normalized_name, is_liquid_flag, quantity)
determine_best_unit(name, is_liquid_flag, quantity, original_unit) ==
    BestUnit(FactsOf(name), is_liquid_flag, quantity, original_unit)

(***************************************************************************)
(* convert_from_standard_unit                                              *)
(***************************************************************************)
\* lines 296-302: weight to volume, density 0 being None
ByDensity(quantity, density, target_unit) ==
    IF density # 0 THEN FDiv(FDiv(quantity, density), ValueOf(VOLUME_TO_ML, target_unit))
    ELSE quantity
convert_from_standard_unit(quantity, std_unit, target_unit, ingredient_name) ==
    IF std_unit = "count" \/ target_unit = "count" THEN quantity
    ELSE IF std_unit = "ml" /\ HasKey(VOLUME_TO_ML, target_unit)
    THEN FDiv(quantity, ValueOf(VOLUME_TO_ML, target_unit))
    ELSE IF std_unit = "g" /\ HasKey(WEIGHT_TO_GRAMS, target_unit)
    THEN FDiv(quantity, ValueOf(WEIGHT_TO_GRAMS, target_unit))
    ELSE IF std_unit = "g" /\ HasKey(VOLUME_TO_ML, target_unit)
    THEN ByDensity(quantity, FactsOf(ingredient_name).density, target_unit)
    ELSE quantity

(***************************************************************************)
(* str(int(x)), f"{x:.1f}", f"{x:.2f}" and format_quantity                 *)
(***************************************************************************)
Abs(n) == IF n < 0 THEN 0 - n ELSE n
RECURSIVE Decimal(_)
Decimal(n) ==
    IF n < 10 THEN Ch(DigitChars, n + 1) ELSE Decimal(n \div 10) \o Ch(DigitChars, (n % 10) + 1)
Sign(q) == IF q < 0 THEN "-" ELSE ""
\* str(int(q)): towards zero
str_int(q) == Sign(q) \o Decimal(Abs(q) \div One)

\* the last places digits of n, zeros kept
Padded(n, scale) == From(Decimal(scale + n), 2)
\* q to a multiple of step, a tie to the even one
Rounded(q, step) ==
    LET down == q \div step
        rest == q % step
    IN IF 2 * rest > step \/ (2 * rest = step /\ down % 2 = 1) THEN down + 1 ELSE down
Fixed(q, step) ==
    IF IsNaN(q) THEN "nan"
    ELSE Sign(q) \o Decimal(Rounded(Abs(q), step) \div (One \div step)) \o "."
         \o Padded(Rounded(Abs(q), step) % (One \div step), One \div step)
\* s.rstrip(c)
RECURSIVE RStripOf(_, _)
RStripOf(s, c) ==
    IF s # "" /\ Ch(s, Len(s)) = c THEN RStripOf(SubSeq(s, 1, Len(s) - 1), c) ELSE s

Tenth == One \div 10
Hundredth == One \div 100
\* abs(quantity - value) < 0.01
Near(q, value) == ~IsNaN(q) /\ Abs(q - value) < Hundredth
\* lines 246-271; quantity is a Python number, an int or a float
format_quantity(quantity, unit) ==
    IF unit = "count"
    THEN IF quantity.t = "num" /\ ~IsNaN(quantity.n) /\ quantity.n % One = 0
         THEN str_int(quantity.n)
         ELSE Fixed(quantity.n, Tenth)
    ELSE IF FLt(quantity.n, 10 * One)
    THEN CASE Near(quantity.n, 2500) -> "1/4"
           [] Near(quantity.n, 5000) -> "1/2"
           [] Near(quantity.n, 7500) -> "3/4"
           [] Near(quantity.n, 3300) -> "1/3"
           [] Near(quantity.n, 6700) -> "2/3"
           [] OTHER -> RStripOf(RStripOf(Fixed(quantity.n, Hundredth), "0"), ".")
    ELSE RStripOf(RStripOf(Fixed(quantity.n, Tenth), "0"), ".")

(***************************************************************************)
(* generate_shopping_list: the display loop and the sort                   *)
(***************************************************************************)
\* lines 563-661 (the fields of the item that depend on the quantity and the unit);
\* key is the dict key the item was built from
\* lines 632-639; std_quantity is a float
standardized_display(data) ==
    IF data.std_unit = "count"
    THEN format_quantity(Num(data.std_quantity), data.std_unit) \o " " \o data.name
    ELSE format_quantity(Num(data.std_quantity), data.std_unit) \o " " \o data.std_unit
         \o " " \o data.name
Displayed(data, display_unit) ==
    [key |-> data.key,
     name |-> data.name,
     standardizedDisplay |-> standardized_display(data),
     amount |-> convert_from_standard_unit(data.std_quantity, data.std_unit,
                                           display_unit, data.key),
     unit |-> display_unit,
     category |-> FactsOf(data.key).category]
Item(data) ==
    Displayed(data, determine_best_unit(data.name, data.is_liquid, data.std_quantity,
                                        data.original_unit))

\* an order by name alone: not the key of line 664
NameLess(x, y) == StrLess(x.name, y.name)
\* (x['category'], x['id']) < (y['category'], y['id']): not what the code does
IdLess(x, y) ==
    \/ StrLess(x.category, y.category)
    \/ x.category = y.category /\ x.id < y.id
\* (x['category'], x['name']) < (y['category'], y['name'])
SortKeyLess(x, y) ==
    \/ StrLess(x.category, y.category)
    \/ x.category = y.category /\ StrLess(x.name, y.name)

\* list.sort is stable: x goes before the first item that is greater
InsertSorted(sorted, x) ==
    LET greater == {j \in DOMAIN sorted : SortKeyLess(x, sorted[j])}
        at == IF greater = {} THEN Len(sorted) + 1
              ELSE CHOOSE j \in greater : \A k \in greater : j <= k
    IN SubSeq(sorted, 1, at - 1) \o <<x>> \o SubSeq(sorted, at, Len(sorted))
RECURSIVE SortFrom(_, _, _)
SortFrom(items, i, sorted) ==
    IF i > Len(items) THEN sorted ELSE SortFrom(items, i + 1, InsertSorted(sorted, items[i]))
Sorted(items) == SortFrom(items, 1, <<>>)

BuildList(dict) == Sorted([i \in DOMAIN dict |-> Item(dict[i])])

\* the dict of an invocation that runs alone on recipes, from ingredient i on
RECURSIVE AloneFrom(_, _, _)
AloneFrom(recipes, i, dict) ==
    IF i > Len(recipes) THEN dict
    ELSE IF ContributionOf[recipes[i]].kind = "add"
    THEN AloneFrom(recipes, i + 1, Merge(dict, ContributionOf[recipes[i]]))
    ELSE AloneFrom(recipes, i + 1, dict)
Alone(recipes) == BuildList(AloneFrom(recipes, 1, <<>>))

(***************************************************************************)
(* routes/shopping_list_routes.py: POST /generate, for the recipes of a    *)
(* body; a recipe is [id, extendedIngredients], its id a Python value.     *)
(***************************************************************************)
PrepWords == <<"fresh ", "frozen ", "dried ", "ground ", "chopped ", "sliced ", "diced ",
               "minced ", "grated ", "shredded ">>
RECURSIVE RemoveWords(_, _)
RemoveWords(name, i) ==
    IF i > Len(PrepWords) THEN name ELSE RemoveWords(RemoveAll(name, PrepWords[i]), i + 1)
\* lines 84-97: normalize_ingredient_name of the routes module
routes_normalize_ingredient_name(name) == Strip(RemoveWords(Lower(name), 1))

UnitForms == <<
    <<"tsp", <<"tsp", "teaspoon", "teaspoons">> >>,
    <<"tbsp", <<"tbsp", "tablespoon", "tablespoons", "tbs", "tbl">> >>,
    <<"cup", <<"cup", "cups", "c">> >>,
    <<"oz", <<"oz", "ounce", "ounces", "fl oz", "fluid ounce", "fluid ounces">> >>,
    <<"ml", <<"ml", "milliliter", "milliliters", "millilitre", "millilitres">> >>,
    <<"liter", <<"l", "liter", "liters", "litre", "litres">> >>,
    <<"g", <<"g", "gram", "grams">> >>,
    <<"kg", <<"kg", "kilogram", "kilograms">> >>,
    <<"lb", <<"lb", "pound", "pounds">> >>,
    <<"", <<"", "whole", "piece", "pieces", "unit", "units", "count">> >> >>
normalize_unit(unit) ==
    IF \E i \in DOMAIN UnitForms : InSeq(Strip(Lower(unit)), UnitForms[i][2])
    THEN UnitForms[CHOOSE i \in DOMAIN UnitForms : InSeq(Strip(Lower(unit)), UnitForms[i][2])][1]
    ELSE Strip(Lower(unit))

\* lines 99-148: the same rules as determine_category, by re.search
categorize_ingredient(name) ==
    IF \E i \in DOMAIN CategoryRules : RuleMatches(i, Lower(name))
    THEN CategoryRules[CHOOSE i \in DOMAIN CategoryRules :
                          /\ RuleMatches(i, Lower(name))
                          /\ \A j \in 1..(i - 1) : ~RuleMatches(j, Lower(name))][1]
    ELSE "Other"

\* lines 202-213: the amount of a structured entry
AsValue(quantity) == [exc |-> quantity.exc, amount |-> Num(quantity.amount)]
AmountOf(amount) ==
    IF amount.t = "str" THEN AsValue(QuantityOfText(amount.s)) ELSE [exc |-> "", amount |-> amount]
\* lines 190-222: what is appended to all_ingredients for an entry, or what is raised
Structured(name, quantity, unit) ==
    IF name.t # "str" \/ unit.t # "str" THEN [exc |-> "AttributeError"]
    ELSE IF quantity.exc # "" THEN [exc |-> quantity.exc]
    ELSE [exc |-> "", name |-> routes_normalize_ingredient_name(name.s),
          amount |-> quantity.amount, unit |-> normalize_unit(unit.s)]
FromText(parsed) ==
    IF parsed.exc # "" THEN [exc |-> parsed.exc]
    ELSE [exc |-> "", name |-> parsed.name, amount |-> Num(parsed.amount), unit |-> parsed.unit]
Extracted(ingredient) ==
    IF ingredient.form = "str" THEN FromText(parse_ingredient(ingredient.name.s))
    ELSE Structured(Get(ingredient.name, Str("")), AmountOf(Get(ingredient.amount, Num(One))),
                    Get(ingredient.unit, Str("")))

\* str(amount) of a float that is not whole, to the four decimals of the model
str_float(q) ==
    Sign(q) \o Decimal(Abs(q) \div One) \o "." \o RStripOf(Padded(Abs(q) % One, One), "0")
\* lines 150-163: standardized_display; int(nan) raises ValueError
amount_str(amount) == IF amount % One = 0 THEN str_int(amount) ELSE str_float(amount)
standardize_measurement(amount, unit, name) ==
    Strip(amount_str(amount) \o " " \o unit \o " " \o name)

\* every contribution appends its recipe id: not what the code does
AlwaysAppended(recipeIds, recipe_id) == Append(recipeIds, recipe_id)
\* lines 242-243
WithRecipeId(recipeIds, recipe_id) ==
    IF InSeq(recipe_id, recipeIds) THEN recipeIds ELSE Append(recipeIds, recipe_id)

KeyOf(e) == e.name \o "|" \o e.unit
\* lines 227-265: aggregated after one of all_ingredients
Aggregate(aggregated, e, recipe_id) ==
    IF \E i \in DOMAIN aggregated : aggregated[i].key = KeyOf(e)
    THEN [i \in DOMAIN aggregated |->
             IF aggregated[i].key = KeyOf(e)
             THEN [aggregated[i] EXCEPT !.amount = FAdd(@, e.amount.n),
                                        !.recipeIds = WithRecipeId(@, recipe_id)]
             ELSE aggregated[i]]
    ELSE Append(aggregated, [key |-> KeyOf(e), name |-> e.name,
                             amount |-> e.amount.n, unit |-> e.unit,
                             standardizedDisplay |->
                                 standardize_measurement(e.amount.n, e.unit, e.name),
                             category |-> categorize_ingredient(e.name),
                             recipeIds |-> <<recipe_id>>])
\* line 246 raises on the first nan of a key
Raises(aggregated, e) ==
    IsNaN(e.amount.n) /\ \A i \in DOMAIN aggregated : aggregated[i].key # KeyOf(e)

\* lines 185-197 and 222: the entries of the recipes whose id is truthy, each
\* with the id of its recipe
Tagged(recipe) ==
    IF Truthy(recipe.id)
    THEN [i \in DOMAIN recipe.extendedIngredients |->
             [ingredient |-> recipe.extendedIngredients[i], recipeId |-> recipe.id]]
    ELSE <<>>
RECURSIVE EntriesOf(_, _)
EntriesOf(recipes, r) ==
    IF r > Len(recipes) THEN <<>> ELSE Tagged(recipes[r]) \o EntriesOf(recipes, r + 1)

\* lines 181-269, from entry i on; the except of line 275 answers 500
RECURSIVE Response(_, _, _)
Response(entries, i, aggregated) ==
    IF i > Len(entries) THEN [status |-> 200, shopping_list |-> Sorted(aggregated)]
    ELSE IF Extracted(entries[i].ingredient).exc # ""
            \/ Extracted(entries[i].ingredient).amount.t # "num"
    THEN [status |-> 500, shopping_list |-> <<>>]
    ELSE IF Raises(aggregated, Extracted(entries[i].ingredient))
    THEN [status |-> 500, shopping_list |-> <<>>]
    ELSE Response(entries, i + 1, Aggregate(aggregated, Extracted(entries[i].ingredient),
                                            entries[i].recipeId))
generate_endpoint(recipes) == Response(EntriesOf(recipes, 1), 1, <<>>)

(***************************************************************************)
(* The call generate_shopping_list(recipes) as a state machine.  The       *)
(* recipes are read in order; nothing of a recipe but its ingredients      *)
(* reaches the dict (servings is read and not used), so the input is drawn *)
(* one loop iteration at a time: a recipe without ingredients, or the next *)
(* ingredient of a recipe that has some.                                   *)
(***************************************************************************)
MaxIterations == 3

VARIABLES
    pc,                        \* "start", "loop", "done" or "raised"
    exc,                       \* the exception that escaped, "" when none
    standardized_ingredients,  \* the dict of line 445
    shopping_list,             \* the returned list
    iterations,                \* iterations of the two loops so far
    last,                      \* history: what the last iteration read, "recipe" (one
                               \* without ingredients), "ingredient", or "" before any
    contributed,               \* history: <<normalized_name, std_unit>> -> the sum of the
                               \* quantities convert_to_standard_unit returned for it
    call,                      \* a helper called on its own: its name, arguments and result
    invocations,               \* concurrent invocations: each one's recipes, position and result
    dicts                      \* the dict objects of the concurrent invocations

vars == <<pc, exc, standardized_ingredients, shopping_list, iterations, last, contributed, call,
          invocations, dicts>>

NoCall == [fn |-> ""]

Init ==
    /\ pc = "start"
    /\ exc = ""
    /\ standardized_ingredients = <<>>
    /\ shopping_list = <<>>
    /\ iterations = 0
    /\ last = ""
    /\ contributed = <<>>
    /\ call = NoCall
    /\ invocations = <<>>
    /\ dicts = <<>>

Record(history, c) ==
    LET p == <<c.normalized_name, c.std_unit>> IN
    IF p \in DOMAIN history
    THEN [history EXCEPT ![p] = FAdd(@, c.std_quantity)]
    ELSE history @@ (p :> c.std_quantity)

\* lines 440-442: recipes is empty
ReturnEmpty ==
    /\ pc = "start"
    /\ pc' = "done"
    /\ shopping_list' = <<>>
    /\ UNCHANGED <<exc, standardized_ingredients, iterations, last, contributed, call, invocations, dicts>>

\* a recipe without ingredients that empties the dict: not what the code does
Emptied(dict, recipe) == <<>>
\* lines 448-458: a recipe without ingredients; the dict after the iteration
AfterEmptyRecipe(dict, recipe) == dict
SkipRecipe(recipe) ==
    /\ pc \in {"start", "loop"}
    /\ iterations < MaxIterations
    /\ iterations' = iterations + 1
    /\ last' = "recipe"
    /\ pc' = "loop"
    /\ standardized_ingredients' = AfterEmptyRecipe(standardized_ingredients, recipe)
    /\ UNCHANGED <<exc, shopping_list, contributed, call, invocations, dicts>>

\* lines 461-559: one ingredient
ProcessIngredient(ingredient) ==
    LET c == ContributionOf[ingredient] IN
    /\ pc \in {"start", "loop"}
    /\ iterations < MaxIterations
    /\ iterations' = iterations + 1
    /\ last' = "ingredient"
    /\ pc' = IF c.kind = "raise" THEN "raised" ELSE "loop"
    /\ exc' = c.exc
    /\ standardized_ingredients' =
          IF c.kind = "add" THEN Merge(standardized_ingredients, c) ELSE standardized_ingredients
    /\ contributed' = IF c.kind = "add" THEN Record(contributed, c) ELSE contributed
    /\ UNCHANGED <<shopping_list, call, invocations, dicts>>

\* lines 561-666
Return ==
    /\ pc = "loop"
    /\ pc' = "done"
    /\ shopping_list' = BuildList(standardized_ingredients)
    /\ UNCHANGED <<exc, standardized_ingredients, iterations, last, contributed, call, invocations, dicts>>

Next ==
    \/ ReturnEmpty
    \/ \E recipe \in EmptyRecipes : SkipRecipe(recipe)
    \/ \E ingredient \in Ingredients : ProcessIngredient(ingredient)
    \/ Return

Spec == Init /\ [][Next]_vars

(***************************************************************************)
(* The helpers called on their own, on names of a few words                *)
(* Each behaviour is one call: the helpers keep nothing between calls.     *)
(***************************************************************************)
MaxWords == 3
Words == {"2", "cups", "apple", "Butter", "rice"}

RECURSIVE PhrasesOf(_)
PhrasesOf(n) ==
    IF n = 1 THEN Words
    ELSE LET shorter == PhrasesOf(n - 1)
         IN shorter \cup {p \o " " \o w : p \in shorter, w \in Words}
HelperNames == PhrasesOf(MaxWords)
OriginalUnits == {Str(""), Str("cup"), Str("can")}
Quantities == {20 * One, 100 * One}

engine == <<pc, exc, standardized_ingredients, shopping_list, iterations, last, contributed>>

Call_determine_best_unit(name, is_liquid_flag, quantity, original_unit) ==
    /\ call = NoCall
    /\ call' = [fn |-> "determine_best_unit", name |-> name, is_liquid |-> is_liquid_flag,
                quantity |-> quantity, original_unit |-> original_unit,
                result |-> determine_best_unit(name, is_liquid_flag, quantity, original_unit)]
    /\ UNCHANGED <<engine, invocations, dicts>>

Call_determine_category(name) ==
    /\ call = NoCall
    /\ call' = [fn |-> "determine_category", name |-> name, result |-> determine_category(name)]
    /\ UNCHANGED <<engine, invocations, dicts>>

\* the function on a name and on what it returned for it
Call_clean_ingredient_name(name) ==
    /\ call = NoCall
    /\ call' = [fn |-> "clean_ingredient_name", name |-> name,
                result |-> clean_ingredient_name(name),
                again |-> clean_ingredient_name(clean_ingredient_name(name))]
    /\ UNCHANGED <<engine, invocations, dicts>>

\* the texts of ingredients given as str: a leading token and the rest
LeadingTokens == {"", "2", "1.5", "1/2", "1/0", "1/2/3", "1 1/2", "½", "¼", "¾"}
Rests == {"cup milk", "fresh basil", "flour"}
IngredientTexts == {Strip(token \o " " \o rest) : token \in LeadingTokens, rest \in Rests}

Call_parse_ingredient(ingredient_str) ==
    /\ call = NoCall
    /\ call' = [fn |-> "parse_ingredient", ingredient_str |-> ingredient_str,
                result |-> parse_ingredient(ingredient_str)]
    /\ UNCHANGED <<engine, invocations, dicts>>

\* spinach has no density: the cup and the g of it are kept in two buckets of one name
SharedIngredients == {Dict(Str("spinach"), Num(One), Str(unit)) : unit \in {"cup", "g"}}
RecipeLists == {<<a>> : a \in SharedIngredients} \cup {<<a, b>> : a, b \in SharedIngredients}
\* the extendedIngredients of a posted recipe
Posted == RecipeLists \cup {<<a>> : a \in WellFormed \cup FreeText}
Recipe(id, extendedIngredients) == [id |-> id, extendedIngredients |-> extendedIngredients]
\* the ids of json: 1, 2, 0, none (get answers None) and ""
PostedIds == {PyInt(1), PyInt(2), PyInt(0), None, Str("")}
\* one ingredient in a free-text and in a structured form
FreshBasil == <<Text("2 cups Fresh Basil"), Dict(Str("Fresh Basil"), Num(2 * One), Str("cups"))>>
\* the recipes of a body: one recipe with an id; three recipes of one cup of
\* flour; one recipe with the two forms of one ingredient, in either order
Bodies ==
    {<<Recipe(PyInt(1), ingredients)>> : ingredients \in Posted}
    \cup {<<Recipe(a, <<Dict(Str("flour"), Num(One), Str("cup"))>>),
            Recipe(b, <<Dict(Str("flour"), Num(One), Str("cup"))>>),
            Recipe(c, <<Dict(Str("flour"), Num(One), Str("cup"))>>)>> : a, b, c \in PostedIds}
    \cup {<<Recipe(PyInt(1), <<FreshBasil[i], FreshBasil[3 - i]>>)>> : i \in 1..2}
\* the ingredients of all the recipes, in order
RECURSIVE IngredientsOf(_, _)
IngredientsOf(recipes, r) ==
    IF r > Len(recipes) THEN <<>>
    ELSE recipes[r].extendedIngredients \o IngredientsOf(recipes, r + 1)

Post_generate(recipes) ==
    /\ call = NoCall
    /\ call' = [fn |-> "POST /generate", recipes |-> recipes,
                ingredients |-> IngredientsOf(recipes, 1),
                result |-> generate_endpoint(recipes)]
    /\ UNCHANGED <<engine, invocations, dicts>>

\* the names of the density table and one that is not in it; the weight units and a volume unit
ConvertNames == {INGREDIENT_DENSITY[i][1] : i \in DOMAIN INGREDIENT_DENSITY} \cup {"spinach"}
ConvertUnits == {WEIGHT_TO_GRAMS[i][1] : i \in DOMAIN WEIGHT_TO_GRAMS} \cup {"cup"}

Call_convert_to_standard_unit(quantity, unit, ingredient_name) ==
    /\ call = NoCall
    /\ call' = [fn |-> "convert_to_standard_unit", quantity |-> quantity, unit |-> unit,
                ingredient_name |-> ingredient_name,
                result |-> convert_to_standard_unit(quantity, Str(unit), ingredient_name)]
    /\ UNCHANGED <<engine, invocations, dicts>>

\* a name after none, one or two preparation adjectives
PreparedNames ==
    {first \o second \o "basil" :
        first, second \in {"", "Fresh ", "whole ", "chopped ", "diced "}}

\* the function on a name and on what it returned for it
Call_normalize_ingredient_name(name) ==
    /\ call = NoCall
    /\ call' = [fn |-> "normalize_ingredient_name", name |-> name,
                result |-> normalize_ingredient_name(name),
                again |-> normalize_ingredient_name(normalize_ingredient_name(name))]
    /\ UNCHANGED <<engine, invocations, dicts>>

\* 2 as json gives it and as a float, and quantities that are not whole
Formatted == {PyInt(2), PyInt(12), Num(2 * One), Num(12 * One), Num(One \div 2),
              Num(2 * One + One \div 2), Num(One \div 3)}
Call_format_quantity(quantity, unit) ==
    /\ call = NoCall
    /\ call' = [fn |-> "format_quantity", quantity |-> quantity, unit |-> unit,
                result |-> format_quantity(quantity, unit)]
    /\ UNCHANGED <<engine, invocations, dicts>>

\* three contributions to the key spinach, which has no density
Spinach == {Dict(Str("spinach"), Num(One), Str("cup")), Dict(Str("spinach"), Num(One), Str("g")),
            Dict(Str("fresh spinach"), Num(One), Str("g"))}
\* the list for the ingredients of a recipe and the list for them in the other order
Reverse(seq) == [i \in DOMAIN seq |-> seq[Len(seq) + 1 - i]]
Call_generate_shopping_list(recipes) ==
    /\ call = NoCall
    /\ call' = [fn |-> "generate_shopping_list", recipes |-> recipes,
                result |-> Alone(recipes), permuted |-> Alone(Reverse(recipes))]
    /\ UNCHANGED <<engine, invocations, dicts>>

HelperNext ==
    \/ \E name \in HelperNames, is_liquid_flag \in BOOLEAN, quantity \in Quantities,
          original_unit \in OriginalUnits :
          Call_determine_best_unit(name, is_liquid_flag, quantity, original_unit)
    \/ \E name \in HelperNames : Call_determine_category(name)
    \/ \E name \in HelperNames : Call_clean_ingredient_name(name)
    \/ \E ingredient_str \in IngredientTexts : Call_parse_ingredient(ingredient_str)
    \/ \E recipes \in Bodies : Post_generate(recipes)
    \/ \E name \in PreparedNames : Call_normalize_ingredient_name(name)
    \/ \E quantity \in Formatted, unit \in {"count", "g"} : Call_format_quantity(quantity, unit)
    \/ \E a, b \in Reordered : Call_generate_shopping_list(<<a, b>>)
    \/ \E a, b, c \in Spinach : Call_generate_shopping_list(<<a, b, c>>)
    \/ \E quantity \in {One, 2 * One}, unit \in ConvertUnits, ingredient_name \in ConvertNames :
          Call_convert_to_standard_unit(quantity, unit, ingredient_name)

Helpers == Init /\ [][HelperNext]_vars

(***************************************************************************)
(* Concurrent invocations of generate_shopping_list: each step is one      *)
(* statement group of one invocation, in any interleaving.                 *)
(***************************************************************************)
Invocations == 2
Callers == 1..Invocations
\* line 648: two of the values of str(uuid.uuid4())[:8]
Ids == {1, 2}

\* one dict for all the invocations: not what the code does
SharedDict(invocation) == 1
\* line 445: the name standardized_ingredients is local, the dict is the invocation's own
DictOf(invocation) == invocation

ConcurrentInit ==
    /\ pc = "start"
    /\ exc = ""
    /\ standardized_ingredients = <<>>
    /\ shopping_list = <<>>
    /\ iterations = 0
    /\ last = ""
    /\ contributed = <<>>
    /\ call = NoCall
    /\ invocations \in [Callers -> {[pc |-> "start", recipes |-> recipes, at |-> 1,
                                     shopping_list |-> <<>>] : recipes \in RecipeLists}]
    /\ dicts = [d \in Callers |-> <<>>]

\* lines 439-445
Enter(invocation) ==
    /\ invocations[invocation].pc = "start"
    /\ invocations' = [invocations EXCEPT ![invocation].pc = "loop"]
    /\ dicts' = [dicts EXCEPT ![DictOf(invocation)] = <<>>]
    /\ UNCHANGED <<engine, call>>

\* lines 461-559: one ingredient
Step(invocation) ==
    LET frame == invocations[invocation]
        c == ContributionOf[frame.recipes[frame.at]]
    IN /\ frame.pc = "loop"
       /\ frame.at <= Len(frame.recipes)
       /\ invocations' = [invocations EXCEPT ![invocation].at = @ + 1,
                             ![invocation].pc = IF c.kind = "raise" THEN "raised" ELSE "loop"]
       /\ dicts' = [dicts EXCEPT ![DictOf(invocation)] = IF c.kind = "add" THEN Merge(@, c) ELSE @]
       /\ UNCHANGED <<engine, call>>

\* lines 648-652: the items in the order of the dict, each with its id
WithIds(dict, ids) == [i \in DOMAIN dict |-> Item(dict[i]) @@ [id |-> ids[i]]]

\* lines 561-666
Finish(invocation) ==
    /\ invocations[invocation].pc = "loop"
    /\ invocations[invocation].at > Len(invocations[invocation].recipes)
    /\ \E ids \in [DOMAIN dicts[DictOf(invocation)] -> Ids] :
          invocations' = [invocations EXCEPT ![invocation].pc = "done",
                             ![invocation].shopping_list =
                                 Sorted(WithIds(dicts[DictOf(invocation)], ids))]
    /\ UNCHANGED <<engine, call, dicts>>

ConcurrentNext ==
    \E invocation \in Callers :
        \/ Enter(invocation)
        \/ Step(invocation)
        \/ Finish(invocation)

Concurrent == ConcurrentInit /\ [][ConcurrentNext]_vars

(***************************************************************************)
(* Properties of the aggregation                                           *)
(***************************************************************************)
\* the standard units contributed so far under a normalized name
UnitsContributed(n) == {p[2] : p \in {q \in DOMAIN contributed : q[1] = n}}
NamesContributed == {p[1] : p \in DOMAIN contributed}
\* the buckets of a name that hold a given standard unit: the main bucket and
\* the '<name> (in <unit>)' ones
BucketsIn(dict, n, u) ==
    {i \in DOMAIN dict : /\ dict[i].key \in {n, AltName(n, "ml"), AltName(n, "g")}
                         /\ dict[i].std_unit = u}
RECURSIVE SumOver(_, _)
SumOver(dict, indices) ==
    IF indices = {} THEN 0
    ELSE LET i == CHOOSE j \in indices : TRUE
         IN FAdd(dict[i].std_quantity, SumOver(dict, indices \ {i}))

\* C1: no silent loss.  For a name that no density entry matches and that has
\* received ml and g contributions (and no other unit), the quantities of its
\* buckets in each of the two units sum to the quantities contributed in that
\* unit, however many contributions there were.
C1_NoSilentLoss ==
    \A n \in NamesContributed :
        (DensityOf(n) = 0 /\ UnitsContributed(n) = {"ml", "g"}) =>
            \A u \in {"ml", "g"} :
                SumOver(standardized_ingredients, BucketsIn(standardized_ingredients, n, u))
                    = contributed[<<n, u>>]

\* C2: a contribution is added to an existing bucket only when its standard
\* unit is the bucket's, or when the two are ml and g and a density reconciles
\* them; quantities in different standard units are never summed.
C2_SameUnitOnly ==
    [][\A ingredient \in Ingredients :
          LET c == ContributionOf[ingredient]
              old == BucketOf(standardized_ingredients, c.normalized_name)
              new == BucketOf(standardized_ingredients', c.normalized_name)
          IN (/\ ProcessIngredient(ingredient)
              /\ c.kind = "add"
              /\ HasBucket(standardized_ingredients, c.normalized_name)
              /\ new.std_quantity # old.std_quantity)
             => \/ c.std_unit = old.std_unit
                \/ DensityOf(c.normalized_name) # 0 /\ {c.std_unit, old.std_unit} = {"ml", "g"}
      ]_vars

\* the standard unit of a contribution once ml and g are reconciled: grams,
\* when the name has a density and received both
Reconciled(n, u) ==
    IF u \in {"ml", "g"} /\ DensityOf(n) # 0 /\ {"ml", "g"} \subseteq UnitsContributed(n)
    THEN "g" ELSE u

\* the items built from the buckets of a name
ItemsOf(n, u) == {i \in DOMAIN shopping_list : shopping_list[i].key \in {n, AltName(n, u)}}

\* C3: aggregation additivity.  In the returned list, the contributions that
\* share a normalized name and a standard unit make exactly one item, and its
\* amount is the sum of what was contributed, expressed in the item's unit
\* (stated for the names whose ml and g are not merged through a density).
C3_Additivity ==
    pc = "done" =>
        \A p \in DOMAIN contributed :
            Reconciled(p[1], p[2]) = p[2] /\ Reconciled(p[1], "ml") = "ml" =>
            Cardinality({i \in ItemsOf(p[1], p[2]) :
                            shopping_list[i].amount =
                                convert_from_standard_unit(contributed[p], p[2],
                                                           shopping_list[i].unit, p[1])}) = 1

\* C4: the returned list has one item per bucket, and as many items as there
\* are distinct pairs of normalized name and reconciled standard unit among
\* the ingredients that reached the aggregation.
C4_OneItemPerPair ==
    pc = "done" =>
        /\ Len(shopping_list) = Len(standardized_ingredients)
        /\ Len(shopping_list) =
              Cardinality({<<p[1], Reconciled(p[1], p[2])>> : p \in DOMAIN contributed})

\* C5: every bucket holds a strictly positive quantity, and every returned
\* item has a strictly positive amount.
C5_PositiveQuantities ==
    /\ \A i \in DOMAIN standardized_ingredients : FGt(standardized_ingredients[i].std_quantity, 0)
    /\ \A i \in DOMAIN shopping_list : FGt(shopping_list[i].amount, 0)

(***************************************************************************)
(* Properties of the returned list and of the handling of odd input        *)
(***************************************************************************)
\* (category, name) of x is at most that of y
KeyAtMost(x, y) ==
    \/ StrLess(x.category, y.category)
    \/ x.category = y.category /\ (x.name = y.name \/ StrLess(x.name, y.name))

\* C6: the returned list is sorted by (category, name) ascending: each item's
\* (category, name) is at most that of the item after it.
C6_SortedByCategoryAndName ==
    pc = "done" =>
        \A i \in 1..(Len(shopping_list) - 1) : KeyAtMost(shopping_list[i], shopping_list[i + 1])
\* a returned list of several categories that the sort had to reorder
C6_Reordered ==
    /\ pc = "done"
    /\ Len(shopping_list) >= 3
    /\ Cardinality({shopping_list[i].category : i \in DOMAIN shopping_list}) >= 2
    /\ shopping_list # [i \in DOMAIN standardized_ingredients |-> Item(standardized_ingredients[i])]

\* C7: a recipe without ingredients contributes nothing and raises nothing: the
\* list that would be returned is the same before and after it is read, and the
\* empty list of recipes returns the empty list.
C7_EmptyRecipeContributesNothing ==
    [][/\ (\E recipe \in EmptyRecipes : SkipRecipe(recipe)) =>
              /\ BuildList(standardized_ingredients') = BuildList(standardized_ingredients)
              /\ pc' = "loop" /\ exc' = ""
       /\ ReturnEmpty => shopping_list' = <<>> /\ exc' = ""
      ]_vars
\* a list returned with items in it, the last recipe read having had no ingredients
C7_ReturnedAfterEmptyRecipe ==
    /\ pc = "done"
    /\ last = "recipe"
    /\ Len(shopping_list) >= 2

\* C8: no exception escapes, whatever the amounts and units of the entries are
\* (missing, None, text that is not a number) and also for an entry that is a
\* str and not a dict.
C8_NeverRaises == pc # "raised"

\* the entries whose amount is text that float() rejects
NonNumericAmount ==
    {ingredient \in Ingredients :
        /\ ingredient.form = "dict"
        /\ Truthy(Get(ingredient.name, Str("")))
        /\ ingredient.amount.t = "str"
        /\ FloatFails(ingredient.amount.s)}

\* C9: an entry whose amount is not a number is processed with quantity 1: after
\* it is read it has a bucket, and what it contributed is what the same entry
\* with amount 1 contributes.
C9_UnparseableAmountDefaultsToOne ==
    [][\A ingredient \in NonNumericAmount :
          ProcessIngredient(ingredient) =>
              LET one == Contribution([ingredient EXCEPT !.amount = Num(One)])
              IN /\ HasBucket(standardized_ingredients', one.normalized_name)
                 /\ contributed' = Record(contributed, one)
      ]_vars

\* the entries with an empty unit and a positive amount
EmptyUnitPositive ==
    {ingredient \in Ingredients :
        /\ ingredient.form = "dict"
        /\ Truthy(Get(ingredient.name, Str("")))
        /\ Get(ingredient.unit, Str("")) = Str("")
        /\ QuantityOf(ingredient.amount).t = "num"
        /\ FGt(QuantityOf(ingredient.amount).n, 0)}

\* C10: count detection.  An entry with an empty unit and a positive amount is
\* standardized as 'count', and a name that received only such entries has a
\* returned item of unit 'count' whose amount is the sum of the amounts.
C10_EmptyUnitIsCount ==
    /\ \A ingredient \in EmptyUnitPositive :
          /\ ContributionOf[ingredient].kind = "add"
          /\ ContributionOf[ingredient].std_unit = "count"
          /\ ContributionOf[ingredient].std_quantity = QuantityOf(ingredient.amount).n
    /\ pc = "done" =>
          \A n \in NamesContributed :
              UnitsContributed(n) = {"count"} =>
                  \E i \in DOMAIN shopping_list :
                      /\ shopping_list[i].key = n
                      /\ shopping_list[i].unit = "count"
                      /\ shopping_list[i].amount = contributed[<<n, "count">>]

(***************************************************************************)
(* Properties of the display unit and of the category                      *)
(***************************************************************************)
\* amount in unit is the quantity q of the standard unit std_unit, for the name n:
\* by the factor of the unit within volume or within weight, by the density
\* as well between the two, and as it is only when the unit is the same
SameQuantity(amount, unit, q, std_unit, n) ==
    IF unit = std_unit THEN amount = q
    ELSE IF std_unit = "ml"
    THEN \/ HasKey(VOLUME_TO_ML, unit) /\ amount = FDiv(q, ValueOf(VOLUME_TO_ML, unit))
         \/ /\ HasKey(WEIGHT_TO_GRAMS, unit) /\ DensityOf(n) # 0
            /\ amount = FDiv(FMul(q, DensityOf(n)), ValueOf(WEIGHT_TO_GRAMS, unit))
    ELSE IF std_unit = "g"
    THEN \/ HasKey(WEIGHT_TO_GRAMS, unit) /\ amount = FDiv(q, ValueOf(WEIGHT_TO_GRAMS, unit))
         \/ /\ HasKey(VOLUME_TO_ML, unit) /\ DensityOf(n) # 0
            /\ amount = FDiv(FDiv(q, DensityOf(n)), ValueOf(VOLUME_TO_ML, unit))
    ELSE FALSE

\* C11: every returned item's (amount, unit) is the same physical quantity as
\* its bucket's (std_quantity, std_unit); the amount is never the standard
\* quantity left as it is under another unit.
C11_AmountInDisplayUnit ==
    pc = "done" =>
        \A i \in DOMAIN shopping_list :
            LET data == BucketOf(standardized_ingredients, shopping_list[i].key)
            IN SameQuantity(shopping_list[i].amount, shopping_list[i].unit,
                            data.std_quantity, data.std_unit, shopping_list[i].key)

\* the unit by the order: a count original unit, the preferred-unit table,
\* the count patterns and the discrete foods, the magnitude
UnitByPriority(facts, is_liquid_flag, quantity, original_unit) ==
    IF Truthy(original_unit) /\ InSeq(Lower(original_unit.s), COUNT_UNITS) THEN "count"
    ELSE IF facts.preferred # 0 THEN PREFERRED_UNITS[facts.preferred][2]
    ELSE IF facts.count_pattern \/ facts.count_item THEN "count"
    ELSE ByMagnitude(facts.normalized_name, is_liquid_flag, quantity)

\* C12: determine_best_unit returns 'count' for a count original unit, else the
\* preferred unit of the first preferred-unit key in the normalized name, else
\* 'count' for a count pattern or a discrete food, else the unit by magnitude;
\* a name with a preferred-unit key and a discrete food gets the preferred unit.
C12_PreferredUnitBeforeCountPatterns ==
    call.fn = "determine_best_unit" =>
        call.result = UnitByPriority(NameFacts(call.name), call.is_liquid, call.quantity,
                                     call.original_unit)

\* the twelve categories
Categories ==
    {CategoryRules[i][1] : i \in DOMAIN CategoryRules} \cup {"Other"}
\* a keyword of rule i is a substring of the lowercased name
KeywordIn(i, name) ==
    \E k \in DOMAIN CategoryRules[i][2] : Contains(Lower(name), CategoryRules[i][2][k])
\* the rules in the order Produce, Dairy, Meat, Seafood, Baking & Spices,
\* Grains & Pasta, Canned Goods, Frozen, Condiments & Sauces, Beverages, Snacks
RuleOrder ==
    <<"Produce", "Dairy", "Meat", "Seafood", "Baking & Spices", "Grains & Pasta",
      "Canned Goods", "Frozen", "Condiments & Sauces", "Beverages", "Snacks">>

\* C13: determine_category returns the category of the first rule, in the fixed
\* order, that has a keyword in the lowercased name, 'Other' when no rule has;
\* the result is one of the twelve categories and is not empty.
C13_FirstMatchingCategory ==
    call.fn = "determine_category" =>
        /\ [i \in DOMAIN CategoryRules |-> CategoryRules[i][1]] = RuleOrder
        /\ call.result \in Categories /\ call.result # "" /\ Cardinality(Categories) = 12
        /\ \/ /\ call.result = "Other"
              /\ \A i \in DOMAIN RuleOrder : ~KeywordIn(i, call.name)
           \/ \E i \in DOMAIN RuleOrder :
                 /\ call.result = RuleOrder[i]
                 /\ KeywordIn(i, call.name)
                 /\ \A j \in 1..(i - 1) : ~KeywordIn(j, call.name)
\* a name with an uppercase letter in its keyword and keywords of two rules,
\* and a name with no keyword
C13_SecondRuleAlsoMatches ==
    /\ call.fn = "determine_category"
    /\ call.name = "Butter rice"
    /\ KeywordIn(2, call.name) /\ KeywordIn(6, call.name) /\ ~Contains(call.name, "butter")
    /\ call.result = "Dairy"

\* C15: clean_ingredient_name is idempotent: applied to its own result it
\* returns that result, also for a name that starts with several numeric
\* tokens or several quantity and unit prefixes.
C15_CleanIsIdempotent ==
    call.fn = "clean_ingredient_name" => call.again = call.result

(***************************************************************************)
(* Properties of two and more invocations                                  *)
(***************************************************************************)
\* the fields of the items but the id
Visible(list) ==
    [i \in DOMAIN list |-> [name |-> list[i].name, amount |-> list[i].amount,
                            unit |-> list[i].unit, category |-> list[i].category]]
Done(invocation) == invocations[invocation].pc = "done"

\* C14: two runs on the same input return lists of the same length whose items
\* have, position by position, the same name, amount, unit and category, the
\* id aside; this includes the order of items of one category and one name.
C14_SameInputSameList ==
    \A a, b \in DOMAIN invocations :
        Done(a) /\ Done(b) /\ invocations[a].recipes = invocations[b].recipes =>
            /\ Len(invocations[a].shopping_list) = Len(invocations[b].shopping_list)
            /\ Visible(invocations[a].shopping_list) = Visible(invocations[b].shopping_list)
\* two runs on one input returned two items of one category and one name, that
\* differ in unit, and the ids of the two runs are in opposite orders
C14_TiedItemsInBothRuns ==
    /\ Done(1) /\ Done(2)
    /\ invocations[1].recipes = invocations[2].recipes
    /\ Len(invocations[1].shopping_list) = 2
    /\ LET x == invocations[1].shopping_list
           y == invocations[2].shopping_list
       IN /\ x[1].category = x[2].category /\ x[1].name = x[2].name
          /\ x[1].unit # x[2].unit
          /\ x[1].id < x[2].id /\ y[1].id > y[2].id

\* C16: under every interleaving of the invocations, an invocation returns
\* the items it returns when it runs alone on its recipes: its dict is its
\* own, and the tables are only read.
C16_SameAsAlone ==
    \A invocation \in DOMAIN invocations :
        Done(invocation) =>
            Visible(invocations[invocation].shopping_list) =
                Visible(Alone(invocations[invocation].recipes))
\* the first invocation returned while the second one, on other recipes with
\* the same name, was between two of its ingredients
C16_ReturnedWhileOtherRuns ==
    /\ Done(1)
    /\ invocations[2].pc = "loop" /\ invocations[2].at = 2 /\ Len(invocations[2].recipes) = 2
    /\ invocations[1].recipes # invocations[2].recipes
    /\ Len(invocations[1].shopping_list) = 2
    /\ dicts[DictOf(2)] # <<>> /\ dicts[DictOf(2)] # dicts[DictOf(1)]

(***************************************************************************)
(* Properties of parse_ingredient                                          *)
(***************************************************************************)
\* the fraction glyphs the strings of the model can hold, and their values
GlyphValue == [glyph \in {"½", "¼", "¾"} |->
                  IF glyph = "½" THEN One \div 2 ELSE IF glyph = "¼" THEN One \div 4
                  ELSE (3 * One) \div 4]
AllDigits(w) == w # "" /\ Span(w, 1, "d") = Len(w)
\* w is a/b, a and b integers
IsSimpleFraction(w) ==
    /\ Contains(w, "/")
    /\ AllDigits(SubSeq(w, 1, Find(w, "/") - 1))
    /\ AllDigits(From(w, Find(w, "/") + 1))
\* an integer, a decimal, a simple fraction or a single fraction glyph
IsNumberToken(w) == IsDecimal(w) \/ IsSimpleFraction(w) \/ w \in DOMAIN GlyphValue
TokenValue(w) ==
    IF w \in DOMAIN GlyphValue THEN GlyphValue[w]
    ELSE IF IsSimpleFraction(w)
    THEN (DigitsValue(SubSeq(w, 1, Find(w, "/") - 1)) * One)
             \div DigitsValue(From(w, Find(w, "/") + 1))
    ELSE FloatOf(w)
\* the text after its first word
AfterFirstWord(text) == Strip(From(Strip(text), WordEnd(Strip(text), 1)))
ParsedText == call.fn = "parse_ingredient"

\* C18: parse_ingredient raises for no string, a leading fraction with the
\* denominator 0 or with more than one '/' included: it returns a record.
C18_ParseNeverRaises ==
    ParsedText => call.result.exc = ""

\* C19: when the string does not start with a number (its first word is not a
\* numeric token, or its first two words are, as in '1 1/2'), the result is
\* amount 1, unit "" and the whole trimmed string as the name.
C19_NoNumberKeepsWholeText ==
    ParsedText /\ call.result.exc = "" =>
        LET words == Split(call.ingredient_str) IN
        (\/ ~IsNumberToken(words[1]) /\ ~IsDigit(Ch(words[1], 1))
         \/ IsNumberToken(words[1]) /\ Len(words) >= 2 /\ IsNumberToken(words[2])) =>
            /\ call.result.amount = One
            /\ call.result.unit = ""
            /\ call.result.name = Strip(call.ingredient_str)

\* C20: a leading integer, decimal, simple fraction a/b or single fraction
\* glyph is parsed to its value, and the rest of the string is the unit and
\* the name.
C20_NumericTokenParsed ==
    ParsedText =>
        LET words == Split(call.ingredient_str) IN
        (/\ IsNumberToken(words[1])
         /\ IsSimpleFraction(words[1]) => DigitsValue(From(words[1], Find(words[1], "/") + 1)) # 0
         /\ Len(words) >= 2 /\ ~IsNumberToken(words[2])) =>
            /\ call.result.exc = ""
            /\ call.result.amount = TokenValue(words[1])
            /\ AfterFirstWord(call.ingredient_str) =
                   IF call.result.unit = "" THEN call.result.name
                   ELSE call.result.unit \o " " \o call.result.name

(***************************************************************************)
(* Properties of the endpoint                                              *)
(***************************************************************************)
\* C17: for a body with recipes, POST /generate answers with the list that
\* services.shopping_list.generate_shopping_list returns for these recipes:
\* the same items with the same amounts and units, in the same order.
C17_EndpointReturnsEngineList ==
    call.fn = "POST /generate" /\ (\A i \in DOMAIN call.ingredients : call.ingredients[i].form = "dict") =>
        /\ call.result.status = 200
        /\ Visible(call.result.shopping_list) = Visible(Alone(call.ingredients))

(***************************************************************************)
(* Properties of convert_to_standard_unit and normalize_ingredient_name    *)
(***************************************************************************)
Converted == call.fn = "convert_to_standard_unit"

\* C21: a quantity in a weight unit of WEIGHT_TO_GRAMS comes back as the
\* quantity times the grams of the unit, in 'g', for every ingredient name,
\* also one that is_liquid classifies as liquid.
C21_WeightUnitGivesGrams ==
    Converted /\ HasKey(WEIGHT_TO_GRAMS, call.unit) =>
        /\ call.result.exc = ""
        /\ call.result.u = "g"
        /\ call.result.q = FMul(call.quantity, ValueOf(WEIGHT_TO_GRAMS, call.unit))

\* the density listed for the key k of INGREDIENT_DENSITY
ListedDensity(k) ==
    INGREDIENT_DENSITY[CHOOSE i \in DOMAIN INGREDIENT_DENSITY : INGREDIENT_DENSITY[i][1] = k][2]

\* C22: a volume of a solid ingredient named by a key of INGREDIENT_DENSITY is
\* converted with the density listed for that key, and a solid that matches
\* no key stays in ml.
C22_ListedDensityIsUsed ==
    Converted /\ HasKey(VOLUME_TO_ML, call.unit) /\ ~is_liquid(call.ingredient_name) =>
        IF HasKey(INGREDIENT_DENSITY, call.ingredient_name)
        THEN /\ call.result.u = "g"
             /\ call.result.q = FMul(FMul(call.quantity, ValueOf(VOLUME_TO_ML, call.unit)),
                                     ListedDensity(call.ingredient_name))
        ELSE /\ call.result.u = "ml"
             /\ call.result.q = FMul(call.quantity, ValueOf(VOLUME_TO_ML, call.unit))

PreparationAdjectives ==
    {"fresh ", "frozen ", "dried ", "ground ", "chopped ", "sliced ", "diced ", "minced ",
     "grated ", "shredded ", "whole "}

\* C23: the key normalize_ingredient_name returns is lowercase and begins with
\* none of the preparation adjectives, in whatever order several of them
\* precede the ingredient; the function applied to its result returns it.
C23_NoLeadingAdjectiveLeft ==
    call.fn = "normalize_ingredient_name" =>
        /\ call.result = Lower(call.result)
        /\ \A adjective \in PreparationAdjectives : ~StartsWith(call.result, adjective)
        /\ call.again = call.result

(***************************************************************************)
(* Properties of POST /generate on the recipes of a body                   *)
(***************************************************************************)
Answered == call.fn = "POST /generate" /\ call.result.status = 200
\* the ids of the recipes that are read and have an entry of the key
Contributors(recipes, key) ==
    {recipes[r].id : r \in {r \in DOMAIN recipes :
        /\ Truthy(recipes[r].id)
        /\ \E i \in DOMAIN recipes[r].extendedIngredients :
               KeyOf(Extracted(recipes[r].extendedIngredients[i])) = key}}
NoDuplicate(seq) == \A i, j \in DOMAIN seq : i # j => seq[i] # seq[j]

\* C24: in the list the endpoint returns, the recipeIds of every item has no
\* id twice and holds exactly the ids of the recipes that contributed an
\* ingredient to the item's key.
C24_RecipeIdsAreTheContributors ==
    Answered =>
        \A k \in DOMAIN call.result.shopping_list :
            /\ NoDuplicate(call.result.shopping_list[k].recipeIds)
            /\ {call.result.shopping_list[k].recipeIds[j] :
                   j \in DOMAIN call.result.shopping_list[k].recipeIds}
               = Contributors(call.recipes, call.result.shopping_list[k].key)
\* three recipes contributed to one key, the first and the third with one id
C24_OneIdContributedTwice ==
    /\ Answered
    /\ Len(call.recipes) = 3
    /\ Truthy(call.recipes[1].id) /\ Truthy(call.recipes[2].id)
    /\ call.recipes[3].id = call.recipes[1].id /\ call.recipes[2].id # call.recipes[1].id
    /\ Len(call.result.shopping_list) = 1
    /\ call.result.shopping_list[1].amount = 3 * One
    /\ call.result.shopping_list[1].recipeIds = <<call.recipes[1].id, call.recipes[2].id>>

\* the quantity a standardizedDisplay shows: its first word
Shown(display) == Split(display)[1]
\* the bucket of key in the dict of the engine run alone on the ingredients
TotalOf(ingredients, key) ==
    LET dict == AloneFrom(ingredients, 1, <<>>)
    IN dict[CHOOSE i \in DOMAIN dict : dict[i].key = key]
\* C25: the quantity in an item's standardizedDisplay is the accumulated
\* quantity of its bucket, rendered, in the list of the engine and in the
\* list of the endpoint, after one contribution and after several.
C25_DisplayShowsTheTotal ==
    Answered =>
        /\ \A k \in DOMAIN call.result.shopping_list :
               Shown(call.result.shopping_list[k].standardizedDisplay)
               = amount_str(call.result.shopping_list[k].amount)
        /\ (\A i \in DOMAIN call.ingredients : call.ingredients[i] \in Ingredients) =>
               \A k \in DOMAIN Alone(call.ingredients) :
                   Shown(Alone(call.ingredients)[k].standardizedDisplay)
                   = format_quantity(
                         Num(TotalOf(call.ingredients, Alone(call.ingredients)[k].key).std_quantity),
                         TotalOf(call.ingredients, Alone(call.ingredients)[k].key).std_unit)

\* C26: for the unit 'count', format_quantity returns the digits of the
\* integer when the quantity is whole, be it an int or a float, and one decimal
\* when it is not whole.
C26_WholeCountAsInteger ==
    call.fn = "format_quantity" /\ call.unit = "count" =>
        IF call.quantity.n % One = 0
        THEN call.result = Decimal(call.quantity.n \div One)
        ELSE call.result = Fixed(call.quantity.n, Tenth)

\* C27: every ingredient of every recipe of the body, whatever the id of the
\* recipe, is in exactly one item of the list the endpoint returns.
C27_EveryIngredientInOneBucket ==
    Answered =>
        \A r \in DOMAIN call.recipes :
            \A i \in DOMAIN call.recipes[r].extendedIngredients :
                Extracted(call.recipes[r].extendedIngredients[i]).exc = "" =>
                    Cardinality({k \in DOMAIN call.result.shopping_list :
                        call.result.shopping_list[k].key
                        = KeyOf(Extracted(call.recipes[r].extendedIngredients[i]))}) = 1

\* the structured entry has the name, the amount and the unit that
\* parse_ingredient reads in the free text
SameIngredient(text, entry) ==
    /\ text.form = "str" /\ entry.form = "dict"
    /\ parse_ingredient(text.name.s).exc = ""
    /\ entry.name = Str(parse_ingredient(text.name.s).name)
    /\ entry.amount = Num(parse_ingredient(text.name.s).amount)
    /\ entry.unit = Str(parse_ingredient(text.name.s).unit)
\* C28: a free-text ingredient and a structured ingredient of the same name,
\* amount and unit, posted together, get one key and are one item of the list,
\* with the sum of the two amounts.
C28_OneKeyForBothForms ==
    Answered =>
        \A i, j \in DOMAIN call.ingredients :
            SameIngredient(call.ingredients[i], call.ingredients[j]) =>
                /\ KeyOf(Extracted(call.ingredients[i])) = KeyOf(Extracted(call.ingredients[j]))
                /\ \E k \in DOMAIN call.result.shopping_list :
                       /\ call.result.shopping_list[k].key = KeyOf(Extracted(call.ingredients[j]))
                       /\ call.result.shopping_list[k].amount
                          = FAdd(Extracted(call.ingredients[i]).amount.n,
                                 Extracted(call.ingredients[j]).amount.n)

(***************************************************************************)
(* Properties of generate_shopping_list on one input in two orders         *)
(***************************************************************************)
\* the name, the standard quantity and unit as standardizedDisplay renders
\* them, and the category
Accumulated(item) == <<item.name, item.standardizedDisplay, item.category>>
CountOf(list, x) == Cardinality({k \in DOMAIN list : Accumulated(list[k]) = x})
SameMultiset(x, y) ==
    /\ Len(x) = Len(y)
    /\ \A k \in DOMAIN x : CountOf(x, Accumulated(x[k])) = CountOf(y, Accumulated(x[k]))

\* C29: the items returned for the ingredients in one order and in the other
\* order are the same multiset of name, standard quantity and unit, and
\* category.
C29_OrderDoesNotMatter ==
    call.fn = "generate_shopping_list" => SameMultiset(call.result, call.permuted)

(***************************************************************************)
(* Properties of one iteration of generate_shopping_list on its dict       *)
(***************************************************************************)
\* standardized_ingredients after the first n ingredients
DictAfter(recipes, n) == AloneFrom(SubSeq(recipes, 1, n), 1, <<>>)
\* the keys an ingredient of this normalized name can write
KeysOf(normalized_name) ==
    {normalized_name, AltName(normalized_name, "g"), AltName(normalized_name, "ml")}
\* what an iteration may do to a bucket that exists
Kept(before, after, normalized_name) ==
    /\ after.name = before.name
    /\ after.original_unit = before.original_unit
    /\ after.is_liquid = before.is_liquid
    /\ after.std_unit = before.std_unit \/ (before.std_unit = "ml" /\ after.std_unit = "g")
    /\ before.key \notin KeysOf(normalized_name) => after = before

\* C30: an iteration that merges a contribution leaves every bucket that
\* exists in the dict, with its name, original_unit and is_liquid; it changes
\* the std_quantity of the bucket of its normalized name, its std_unit only
\* from 'ml' to 'g', and nothing in the buckets of the other names.
C30_MergeKeepsFirstContributor ==
    call.fn = "generate_shopping_list" =>
        \A n \in 2..Len(call.recipes) :
            ContributionOf[call.recipes[n]].kind = "add" =>
                \A i \in DOMAIN DictAfter(call.recipes, n - 1) :
                    /\ HasBucket(DictAfter(call.recipes, n), DictAfter(call.recipes, n - 1)[i].key)
                    /\ Kept(DictAfter(call.recipes, n - 1)[i],
                            BucketOf(DictAfter(call.recipes, n),
                                     DictAfter(call.recipes, n - 1)[i].key),
                            ContributionOf[call.recipes[n]].normalized_name)
====
